---- MODULE Spec2Model ----
(***************************************************************************)
(* Model of app.py: the Flask handlers /api/videoinfo and /api/download,   *)
(* the URL validator, the format classification of video_info and the     *)
(* life of a download job's file in the downloads folder.                  *)
(*                                                                         *)
(* Text is modelled as a sequence of one-character strings, so that        *)
(* str.strip and the regular expression are computed, not assumed.         *)
(***************************************************************************)
EXTENDS Integers, Sequences, FiniteSets, TLC

VARIABLES
    req,        \* per request: the handler's locals, its position and its response
    files,      \* the content of DOWNLOAD_FOLDER: a set of <<uid, ext>> file names
    uids,       \* the identifiers uuid4 has handed out
    cand,       \* validator harness: the structure of the candidate URL
    verdict,    \* validator harness: the value is_valid_youtube_url returned, once it has
    rawFormats, \* metadata harness: info["formats"] as the engine returned it
    formats     \* metadata harness: the list video_info builds, once it has

vars == <<req, files, uids, cand, verdict, rawFormats, formats>>

----------------------------------------------------------------------------
(* Bounds *)

MaxReqs == 2        \* request slots (and the size of the identifier pool)
TokenSlack == 1     \* candidate tokens have TokenLen-TokenSlack .. TokenLen+TokenSlack characters
MaxFormats == 2     \* longest raw format list the engine returns

(* Program constants *)

TokenLen == 11      \* the {11} of YOUTUBE_REGEX

\* None, for each kind of value the handlers read with .get()
Absent == "<absent>"        \* a dictionary key holding a string that is not there
NoArg == <<"<absent>">>     \* a query argument (a text) that is not there
NoNumber == 0 - 1           \* a dictionary key holding a number that is not there

----------------------------------------------------------------------------
(* Text *)

Whitespace == {" ", "\t", "\n"}

RECURSIVE LStrip(_)
LStrip(s) == IF s # <<>> /\ Head(s) \in Whitespace THEN LStrip(Tail(s)) ELSE s

RECURSIVE RStrip(_)
RStrip(s) ==
    IF s # <<>> /\ s[Len(s)] \in Whitespace THEN RStrip(SubSeq(s, 1, Len(s) - 1)) ELSE s

Strip(s) == RStrip(LStrip(s))

\* request.args.get(name, "").strip()
ArgGet(arg) == Strip(IF arg = NoArg THEN <<>> ELSE arg)

RECURSIVE Repeat(_, _)
Repeat(c, n) == IF n <= 0 THEN <<>> ELSE <<c>> \o Repeat(c, n - 1)

----------------------------------------------------------------------------
(* YOUTUBE_REGEX and is_valid_youtube_url.  A regular expression is        *)
(* evaluated as the set of positions its match can end at; positions are   *)
(* the index of the next character to read.                                *)

L_http == <<"h","t","t","p">>
L_s == <<"s">>
L_css == <<":","/","/">>
L_www == <<"w","w","w",".">>
L_youtube == <<"y","o","u","t","u","b","e">>
L_youtu == <<"y","o","u","t","u">>
L_nocookie == <<"y","o","u","t","u","b","e","-","n","o","c","o","o","k","i","e">>
L_vimeo == <<"v","i","m","e","o">>
L_dot == <<".">>
L_com == <<"c","o","m">>
L_be == <<"b","e">>
L_slash == <<"/">>
L_watch == <<"w","a","t","c","h","?","v","=">>
L_embed == <<"e","m","b","e","d","/">>
L_v == <<"v","/">>
L_shorts == <<"s","h","o","r","t","s","/">>
L_qv == <<"?","v","=">>
L_playlist == <<"p","l","a","y","l","i","s","t","?","l","i","s","t","=">>
L_tail == <<"&","t","=","1">>

TokenStop == {"&", "=", "%", "?"}

\* a literal
MatchLit(s, P, lit) ==
    { p + Len(lit) : p \in { q \in P : /\ q + Len(lit) - 1 <= Len(s)
                                        /\ SubSeq(s, q, q + Len(lit) - 1) = lit } }

\* (...)?
MatchOpt(P, Q) == P \cup Q

\* .+   (the dot matches anything but a newline)
MatchDotPlus(s, P) ==
    { q \in 2..(Len(s) + 1) : \E p \in P : /\ p < q
                                           /\ \A i \in p..(q - 1) : s[i] # "\n" }

\* [^&=%\?]{11}
MatchToken(s, P) ==
    { p + TokenLen : p \in { q \in P : /\ q + TokenLen - 1 <= Len(s)
                                       /\ \A i \in q..(q + TokenLen - 1) : s[i] \notin TokenStop } }

YOUTUBE_REGEX(s) ==
    LET P0 == {1}
        P1 == MatchOpt(P0, MatchLit(s, MatchOpt(MatchLit(s, P0, L_http),
                                                MatchLit(s, MatchLit(s, P0, L_http), L_s)), L_css))
        P2 == MatchOpt(P1, MatchLit(s, P1, L_www))
        P3 == MatchLit(s, P2, L_youtube) \cup MatchLit(s, P2, L_youtu)
                  \cup MatchLit(s, P2, L_nocookie)
        P4 == MatchLit(s, P3, L_dot)
        P5 == MatchLit(s, P4, L_com) \cup MatchLit(s, P4, L_be)
        P6 == MatchLit(s, P5, L_slash)
        P7 == MatchOpt(P6, MatchLit(s, P6, L_watch) \cup MatchLit(s, P6, L_embed)
                             \cup MatchLit(s, P6, L_v) \cup MatchLit(s, P6, L_shorts)
                             \cup MatchLit(s, MatchDotPlus(s, P6), L_qv))
    IN  MatchToken(s, P7)

is_valid_youtube_url(url) == YOUTUBE_REGEX(IF url = NoArg THEN <<>> ELSE url) # {}

----------------------------------------------------------------------------
(* Validator harness: candidate URLs are built from parts, so that what a  *)
(* URL is (its host, its path shape, the length of its token) is known     *)
(* independently of what the regular expression makes of its text.         *)

Schemes == {"none", "http", "https"}
Hosts == {"youtube", "youtu", "youtube-nocookie", "vimeo"}
Tlds == {"com", "be"}
Shapes == {"watch", "embed", "short", "shorts", "v", "playlist"}
TokenKinds == {"plain", "amp"}      \* "amp": the third character of the token is &
Tails == {"none", "param"}

SchemeText(x) == CASE x = "http" -> L_http \o L_css
                   [] x = "https" -> L_http \o L_s \o L_css
                   [] OTHER -> <<>>

HostText(x) == CASE x = "youtube" -> L_youtube
                 [] x = "youtu" -> L_youtu
                 [] x = "youtube-nocookie" -> L_nocookie
                 [] OTHER -> L_vimeo

TldText(x) == IF x = "com" THEN L_com ELSE L_be

ShapeText(x) == CASE x = "watch" -> L_watch
                  [] x = "embed" -> L_embed
                  [] x = "shorts" -> L_shorts
                  [] x = "v" -> L_v
                  [] x = "playlist" -> L_playlist
                  [] OTHER -> <<>>

TokenText(kind, n) ==
    IF kind = "amp" THEN <<"a", "b", "&">> \o Repeat("c", n - 3) ELSE Repeat("a", n)

Candidates ==
    [blank : {FALSE}, scheme : Schemes, www : BOOLEAN, host : Hosts, tld : Tlds,
     shape : Shapes, tokLen : (TokenLen - TokenSlack)..(TokenLen + TokenSlack),
     tokKind : TokenKinds, tail : Tails]

BlankCandidate ==
    [blank |-> TRUE, scheme |-> "none", www |-> FALSE, host |-> "vimeo", tld |-> "com",
     shape |-> "short", tokLen |-> 0, tokKind |-> "plain", tail |-> "none"]

\* the text of a candidate, as a client would send it
UrlText(c) ==
    IF c.blank THEN <<>>
    ELSE SchemeText(c.scheme) \o (IF c.www THEN L_www ELSE <<>>) \o HostText(c.host)
           \o L_dot \o TldText(c.tld) \o L_slash \o ShapeText(c.shape)
           \o TokenText(c.tokKind, c.tokLen) \o (IF c.tail = "param" THEN L_tail ELSE <<>>)

\* a result that has not been computed yet
Unset == [done |-> FALSE, value |-> FALSE]

CandidateUrl ==
    /\ cand \in Candidates \cup {BlankCandidate}
    /\ verdict = Unset

Validate ==
    /\ ~verdict.done
    /\ verdict' = [done |-> TRUE, value |-> is_valid_youtube_url(UrlText(cand))]
    /\ UNCHANGED <<req, files, uids, cand, rawFormats, formats>>

----------------------------------------------------------------------------
(* video_info: from the engine's raw format entries to the returned list.  *)

AllowedExts == {"mp4", "webm", "m4a", "mp3", "opus"}

RawExts == {"mp4", "mhtml"}
RawCodecs == {"codec", "none", Absent}      \* "codec" stands for any codec name
RawHeights == {NoNumber, 360, 720}
RawAbrs == {NoNumber, 128}

\* the entries the engine returns: every combination for a container that is kept, and
\* the storyboard entry (no codec, no size) for one that is dropped
RawFormat ==
    { f \in [ext : RawExts, vcodec : RawCodecs, acodec : RawCodecs,
              height : RawHeights, abr : RawAbrs] :
        \/ f.ext \in AllowedExts
        \/ f.vcodec = "none" /\ f.acodec = "none" /\ f.height = NoNumber /\ f.abr = NoNumber }

RawLists == UNION { [1..n -> RawFormat] : n \in 0..MaxFormats }

\* the dictionary built for one raw entry (the fields no claim reads are left out)
Fmt(f) ==
    [ext |-> f.ext, height |-> f.height, abr |-> f.abr,
     vcodec |-> f.vcodec, acodec |-> f.acodec,
     progressive |-> (f.vcodec # "none" /\ f.acodec # "none"),
     audio_only |-> (f.vcodec = "none" /\ f.acodec # "none"),
     video_only |-> (f.vcodec # "none" /\ f.acodec = "none")]

\* the loop over info["formats"]: build, keep the allowed containers
RECURSIVE Collect(_)
Collect(raw) ==
    IF raw = <<>> THEN <<>>
    ELSE (IF Fmt(Head(raw)).ext \in AllowedExts THEN <<Fmt(Head(raw))>> ELSE <<>>)
             \o Collect(Tail(raw))

\* x or 0
OrZero(x) == IF x = NoNumber THEN 0 ELSE x

\* sort_key, had the height not been negated
sort_key_Ascending(f) ==
    <<(IF f.progressive THEN 0 ELSE IF f.video_only THEN 1 ELSE 2),
      OrZero(f.height), 0 - OrZero(f.abr)>>

sort_key(f) ==
    <<(IF f.progressive THEN 0 ELSE IF f.video_only THEN 1 ELSE 2),
      0 - OrZero(f.height), 0 - OrZero(f.abr)>>

\* tuple comparison of two keys
KeyLess(a, b) ==
    \/ a[1] < b[1]
    \/ a[1] = b[1] /\ a[2] < b[2]
    \/ a[1] = b[1] /\ a[2] = b[2] /\ a[3] < b[3]

\* list.sort(key=sort_key) is stable: an element goes after the elements not greater than it
RECURSIVE InsertSorted(_, _)
InsertSorted(x, s) ==
    IF s = <<>> THEN <<x>>
    ELSE IF KeyLess(sort_key(x), sort_key(Head(s))) THEN <<x>> \o s
    ELSE <<Head(s)>> \o InsertSorted(x, Tail(s))

RECURSIVE SortFormats(_)
SortFormats(s) ==
    IF s = <<>> THEN <<>>
    ELSE InsertSorted(s[Len(s)], SortFormats(SubSeq(s, 1, Len(s) - 1)))

BuildFormats(raw) == SortFormats(Collect(raw))

NoFormats == [done |-> FALSE, value |-> <<>>]

EngineFormats ==
    /\ rawFormats \in RawLists
    /\ formats = NoFormats

Describe ==
    /\ ~formats.done
    /\ formats' = [done |-> TRUE, value |-> BuildFormats(rawFormats)]
    /\ UNCHANGED <<req, files, uids, cand, verdict, rawFormats>>

----------------------------------------------------------------------------
(* The requests.  A request is served by one handler, whose locals keep    *)
(* the names they have in app.py; pc is the handler's position.            *)

Reqs == 1..MaxReqs
UidPool == 1..MaxReqs       \* the values uuid4().hex can take here
NoUid == 0
Exts == {"webm", "mp4", "mkv", ""}  \* the extensions the engine writes and reports
NoPath == <<NoUid, "">>

DefaultSpec == <<"b","e","s","t","v","i","d","e","o","+",
                 "b","e","s","t","a","u","d","i","o","/","b","e","s","t">>

E_NoUrl == "No URL provided"
E_Invalid == "Invalid YouTube URL"
E_Ffmpeg == "ffmpeg is not installed or not in PATH. Please install ffmpeg."
E_NotFound == "File not found after download"
E_Download == "Download failed: <reason>"
E_Fetch == "Failed to fetch video info: <reason>"

GoodUrl == L_youtu \o L_dot \o L_be \o L_slash \o Repeat("a", TokenLen)
BadUrl == <<"n","o","t","-","a","-","u","r","l">>
UrlArgs == {NoArg, <<>>, <<" ">>, GoodUrl, <<" ">> \o GoodUrl \o <<"\n">>, BadUrl}
FmtArgs == {NoArg, <<>>, <<" ">>, <<"2","2">>, <<" ","2","2","\t">>}
Titles == {NoArg, <<"M","y",":","V","/","C","?">>, <<" ","a","|","b","\t">>}
SmallRawLists ==
    {<<>>, <<[ext |-> "mp4", vcodec |-> "codec", acodec |-> "none",
              height |-> 720, abr |-> NoNumber]>>}

IdleReq ==
    [pc |-> "idle", route |-> "none", urlArg |-> NoArg, fmtArg |-> NoArg,
     url |-> <<>>, format_id |-> <<>>, format_spec |-> <<>>,
     uid |-> NoUid, final_path |-> NoPath, registered |-> FALSE,
     status |-> 0, error |-> "", body |-> "none", formats |-> <<>>,
     probes |-> 0, ffmpeg |-> "unprobed", engineCalls |-> 0, engineMode |-> "none", engineFormat |-> <<>>,
     removeRan |-> FALSE, cleanupError |-> FALSE, transfer |-> "none",
     title |-> NoArg, download_name |-> <<>>, reported |-> NoPath, probed |-> {},
     engineRaised |-> FALSE]

\* return jsonify({"error": ...}), status
Respond(q, st, err) ==
    [q EXCEPT !.pc = "after", !.status = st, !.error = err, !.body = "json"]

\* os.path.exists
Exists(path) == path \in files

\* the files in the folder whose name starts with an identifier
FilesOf(u) == { f \in files : f[1] = u }

Init ==
    /\ req = [r \in Reqs |-> IdleReq]
    /\ files = {}
    /\ uids = {}
    /\ cand = BlankCandidate
    /\ verdict = Unset
    /\ rawFormats = <<>>
    /\ formats = NoFormats

harness == <<cand, verdict, rawFormats, formats>>

\* Flask dispatches a request to its handler
Request(r, route, u, f) ==
    /\ req[r].pc = "idle"
    /\ req' = [req EXCEPT ![r] = [@ EXCEPT !.pc = IF route = "download" THEN "validate"
                                                  ELSE "vi_validate",
                                           !.route = route, !.urlArg = u, !.fmtArg = f]]
    /\ UNCHANGED <<files, uids, harness>>

\* video_info, lines 40-44
ViValidate(r) ==
    /\ req[r].pc = "vi_validate"
    /\ LET url == ArgGet(req[r].urlArg)
           q == [req[r] EXCEPT !.url = url]
       IN  req' = [req EXCEPT ![r] =
                     IF url = <<>> THEN Respond(q, 400, E_NoUrl)
                     ELSE IF ~is_valid_youtube_url(url) THEN Respond(q, 400, E_Invalid)
                     ELSE [q EXCEPT !.pc = "vi_fetch"]]
    /\ UNCHANGED <<files, uids, harness>>

\* ViFetch, had the engine been invoked in download mode with its default template
ViFetch_Download(r, raises, raw) ==
    /\ req[r].pc = "vi_fetch"
    /\ LET q == [req[r] EXCEPT !.engineCalls = @ + 1, !.engineMode = "download"]
       IN  req' = [req EXCEPT ![r] =
                     IF raises THEN Respond(q, 500, E_Fetch)
                     ELSE [q EXCEPT !.pc = "after", !.status = 200, !.body = "json",
                                    !.formats = BuildFormats(raw)]]
    /\ files' = files \cup {<<NoUid, "mp4">>}
    /\ UNCHANGED <<uids, harness>>

\* video_info, lines 46-102: the engine in no-download mode, then the format list
ViFetch(r, raises, raw) ==
    /\ req[r].pc = "vi_fetch"
    /\ LET q == [req[r] EXCEPT !.engineCalls = @ + 1, !.engineMode = "no_download"]
       IN  req' = [req EXCEPT ![r] =
                     IF raises THEN Respond(q, 500, E_Fetch)
                     ELSE [q EXCEPT !.pc = "after", !.status = 200, !.body = "json",
                                    !.formats = BuildFormats(raw)]]
    /\ UNCHANGED <<files, uids, harness>>

\* DlValidate, had the handler probed ffmpeg before it looked at the URL
DlValidate_ProbeFirst(r) ==
    /\ req[r].pc = "validate"
    /\ \E ffmpeg \in BOOLEAN :
         LET url == ArgGet(req[r].urlArg)
             q == [req[r] EXCEPT !.url = url, !.format_id = ArgGet(req[r].fmtArg),
                                 !.probes = @ + 1,
                                 !.ffmpeg = IF ffmpeg THEN "present" ELSE "missing"]
         IN  req' = [req EXCEPT ![r] =
                       IF ~ffmpeg THEN Respond(q, 500, E_Ffmpeg)
                       ELSE IF url = <<>> THEN Respond(q, 400, E_NoUrl)
                       ELSE IF ~is_valid_youtube_url(url) THEN Respond(q, 400, E_Invalid)
                       ELSE [q EXCEPT !.pc = "probe"]]
    /\ UNCHANGED <<files, uids, harness>>

\* DlValidate, had the handler only tested that there is a URL
DlValidate_NoRegex(r) ==
    /\ req[r].pc = "validate"
    /\ LET url == ArgGet(req[r].urlArg)
           q == [req[r] EXCEPT !.url = url, !.format_id = ArgGet(req[r].fmtArg)]
       IN  req' = [req EXCEPT ![r] =
                     IF url = <<>> THEN Respond(q, 400, E_NoUrl)
                     ELSE [q EXCEPT !.pc = "probe"]]
    /\ UNCHANGED <<files, uids, harness>>

\* download, lines 106-112
DlValidate(r) ==
    /\ req[r].pc = "validate"
    /\ LET url == ArgGet(req[r].urlArg)
           q == [req[r] EXCEPT !.url = url, !.format_id = ArgGet(req[r].fmtArg)]
       IN  req' = [req EXCEPT ![r] =
                     IF url = <<>> THEN Respond(q, 400, E_NoUrl)
                     ELSE IF ~is_valid_youtube_url(url) THEN Respond(q, 400, E_Invalid)
                     ELSE [q EXCEPT !.pc = "probe"]]
    /\ UNCHANGED <<files, uids, harness>>

\* FormatSpec, had the handler passed the argument on without the default
FormatSpec_NoDefault(format_id) == format_id

\* download, line 115
FormatSpec(format_id) == IF format_id # <<>> THEN format_id ELSE DefaultSpec

\* DlProbe, had the handler gone on whatever check_ffmpeg answered
DlProbe_NoReturn(r, ffmpeg) ==
    /\ req[r].pc = "probe"
    /\ req' = [req EXCEPT ![r] =
                 [@ EXCEPT !.format_spec = FormatSpec(req[r].format_id), !.probes = @ + 1,
                           !.ffmpeg = IF ffmpeg THEN "present" ELSE "missing",
                           !.pc = "allocate"]]
    /\ UNCHANGED <<files, uids, harness>>

\* download, lines 115-118; check_ffmpeg answers what the environment makes it answer
DlProbe(r, ffmpeg) ==
    /\ req[r].pc = "probe"
    /\ LET q == [req[r] EXCEPT !.format_spec = FormatSpec(req[r].format_id),
                               !.probes = @ + 1,
                               !.ffmpeg = IF ffmpeg THEN "present" ELSE "missing"]
       IN  req' = [req EXCEPT ![r] =
                     IF ~ffmpeg THEN Respond(q, 500, E_Ffmpeg)
                     ELSE [q EXCEPT !.pc = "allocate"]]
    /\ UNCHANGED <<files, uids, harness>>

\* DlAllocate, had the identifier been one another job can have as well
DlAllocate_Shared(r, u) ==
    /\ req[r].pc = "allocate"
    /\ u \in UidPool
    /\ req' = [req EXCEPT ![r] = [@ EXCEPT !.pc = "extract", !.uid = u]]
    /\ uids' = uids \cup {u}
    /\ UNCHANGED <<files, harness>>

\* download, lines 120-133: uuid4 yields an identifier nobody has had
DlAllocate(r, u) ==
    /\ req[r].pc = "allocate"
    /\ u \in UidPool \ uids
    /\ req' = [req EXCEPT ![r] = [@ EXCEPT !.pc = "extract", !.uid = u]]
    /\ uids' = uids \cup {u}
    /\ UNCHANGED <<files, harness>>

\* DlExtract, had the handler invoked the engine again after a first failure
DlExtract_Retry(r, written, raises, reported, title) ==
    /\ req[r].pc = "extract"
    /\ written \subseteq Exts
    /\ reported \in Exts
    /\ raises => reported = "" /\ title = NoArg
    /\ files' = files \cup { <<req[r].uid, e>> : e \in written }
    /\ LET q == [req[r] EXCEPT !.engineCalls = @ + 1, !.engineMode = "download",
                               !.engineFormat = req[r].format_spec]
       IN  req' = [req EXCEPT ![r] =
                     IF raises /\ req[r].engineCalls = 0 THEN q
                     ELSE IF raises
                     THEN [Respond(q, 500, E_Download) EXCEPT !.engineRaised = TRUE]
                     ELSE [q EXCEPT !.pc = "resolve", !.title = title,
                                    !.reported = <<req[r].uid, reported>>,
                                    !.final_path = <<req[r].uid, reported>>]]
    /\ UNCHANGED <<uids, harness>>

\* download, lines 135-138 and 164-165: the engine in download mode writes files named
\* after outtmpl, then either raises or returns an info whose file name is uid.reported
DlExtract(r, written, raises, reported, title) ==
    /\ req[r].pc = "extract"
    /\ written \subseteq Exts
    /\ reported \in Exts
    /\ raises => reported = "" /\ title = NoArg
    /\ files' = files \cup { <<req[r].uid, e>> : e \in written }
    /\ LET q == [req[r] EXCEPT !.engineCalls = @ + 1, !.engineMode = "download",
                               !.engineFormat = req[r].format_spec]
       IN  req' = [req EXCEPT ![r] =
                     IF raises THEN [Respond(q, 500, E_Download) EXCEPT !.engineRaised = TRUE]
                     ELSE [q EXCEPT !.pc = "resolve", !.title = title,
                                    !.reported = <<req[r].uid, reported>>,
                                    !.final_path = <<req[r].uid, reported>>]]
    /\ UNCHANGED <<uids, harness>>

\* ResolvePath, had the handler not looked for the .mp4 sibling
ResolvePath_NoFallback(path) == path

\* download, lines 140-143
ResolvePath(path) ==
    IF ~Exists(path) /\ Exists(<<path[1], "mp4">>) THEN <<path[1], "mp4">> ELSE path

\* download, lines 140-145: the paths os.path.exists is asked about
Probed(path) ==
    {path, ResolvePath(path)} \cup (IF ~Exists(path) THEN {<<path[1], "mp4">>} ELSE {})

\* download, lines 140-146
DlResolve(r) ==
    /\ req[r].pc = "resolve"
    /\ LET final_path == ResolvePath(req[r].final_path)
           q == [req[r] EXCEPT !.final_path = final_path,
                               !.probed = Probed(req[r].final_path)]
       IN  req' = [req EXCEPT ![r] =
                     IF ~Exists(final_path) THEN Respond(q, 500, E_NotFound)
                     ELSE [q EXCEPT !.pc = "send"]]
    /\ UNCHANGED <<files, uids, harness>>

\* the characters of an extension
ExtText(e) == CASE e = "webm" -> <<"w","e","b","m">>
                [] e = "mp4" -> <<"m","p","4">>
                [] e = "mkv" -> <<"m","k","v">>
                [] OTHER -> <<>>

\* the text of a path in DOWNLOAD_FOLDER; the identifier is one symbol
PathText(path) == <<"/", ToString(path[1]), ".">> \o ExtText(path[2])

\* the last position of a text that holds one of some characters, 0 when there is none
LastOf(s, cs) ==
    LET I == { i \in 1..Len(s) : s[i] \in cs }
    IN  IF I = {} THEN 0 ELSE CHOOSE i \in I : \A j \in I : j <= i

\* os.path.splitext(p)[1]: from the last dot of the last component, unless that
\* component has nothing but dots before it
SplitExt(p) ==
    LET sep == LastOf(p, {"/"})
        dot == LastOf(p, {"."})
    IN  IF dot > sep /\ (\E i \in (sep + 1)..(dot - 1) : p[i] # ".")
        THEN SubSeq(p, dot, Len(p)) ELSE <<>>

\* str.lstrip(".")
RECURSIVE LStripDots(_)
LStripDots(s) == IF s # <<>> /\ Head(s) = "." THEN LStripDots(Tail(s)) ELSE s

L_mp4 == <<"m","p","4">>
L_video == <<"v","i","d","e","o">>

\* download, line 150
FileExt(path) ==
    LET e == LStripDots(SplitExt(PathText(path))) IN IF e = <<>> THEN L_mp4 ELSE e

\* download, line 148
Title(t) == Strip(IF t = NoArg \/ t = <<>> THEN L_video ELSE t)

Hostile == {"\\", "/", "*", "?", ":", "\"", "<", ">", "|"}

\* safe_title, had the pattern lacked the question mark
safe_title_NoQuestionMark(title) ==
    [i \in 1..Len(title) |-> IF title[i] \in Hostile \ {"?"} THEN "_" ELSE title[i]]

\* download, line 149
safe_title(title) == [i \in 1..Len(title) |-> IF title[i] \in Hostile THEN "_" ELSE title[i]]

\* download, line 162
DownloadName(t, path) == safe_title(Title(t)) \o <<".">> \o FileExt(path)

\* DlSendFile, had remove_file been registered once send_file had returned
DlSendFile_RegisterLate(r, raises) ==
    /\ req[r].pc = "send"
    /\ req' = [req EXCEPT ![r] =
                 IF raises THEN Respond(req[r], 500, E_Download)
                 ELSE [@ EXCEPT !.pc = "after", !.status = 200, !.body = "file",
                                !.registered = TRUE,
                                !.download_name =
                                    DownloadName(req[r].title, req[r].final_path)]]
    /\ UNCHANGED <<files, uids, harness>>

\* download, lines 148-165: remove_file is registered, then send_file opens the file
\* and builds the response, or raises and the handler answers 500
DlSendFile(r, raises) ==
    /\ req[r].pc = "send"
    /\ LET q == [req[r] EXCEPT !.registered = TRUE]
       IN  req' = [req EXCEPT ![r] =
                     IF raises THEN Respond(q, 500, E_Download)
                     ELSE [q EXCEPT !.pc = "after", !.status = 200, !.body = "file",
                                    !.download_name =
                                        DownloadName(req[r].title, req[r].final_path)]]
    /\ UNCHANGED <<files, uids, harness>>

\* remove_file, lines 154-160: what os.remove leaves in the folder
remove_file(path, fails) == IF Exists(path) /\ ~fails THEN files \ {path} ELSE files

\* AfterRequest, had remove_file let the exception of os.remove out
AfterRequest_Raises(r, fails) ==
    /\ req[r].pc = "after"
    /\ IF req[r].registered
       THEN /\ files' = remove_file(req[r].final_path, fails)
            /\ req' = [req EXCEPT ![r] =
                         IF Exists(req[r].final_path) /\ fails
                         THEN [@ EXCEPT !.pc = "transfer", !.removeRan = TRUE,
                                        !.status = 500, !.body = "json",
                                        !.error = "Internal Server Error"]
                         ELSE [@ EXCEPT !.pc = "transfer", !.removeRan = TRUE]]
       ELSE /\ ~fails
            /\ files' = files
            /\ req' = [req EXCEPT ![r] = [@ EXCEPT !.pc = "transfer"]]
    /\ UNCHANGED <<uids, harness>>

\* The handler has returned: Flask runs the functions registered with
\* after_this_request on the response object, before the response goes to the server
AfterRequest(r, fails) ==
    /\ req[r].pc = "after"
    /\ IF req[r].registered
       THEN /\ files' = remove_file(req[r].final_path, fails)
            /\ req' = [req EXCEPT ![r] =
                         [@ EXCEPT !.pc = "transfer", !.removeRan = TRUE,
                                   !.cleanupError = Exists(req[r].final_path) /\ fails]]
       ELSE /\ ~fails
            /\ files' = files
            /\ req' = [req EXCEPT ![r] = [@ EXCEPT !.pc = "transfer"]]
    /\ UNCHANGED <<uids, harness>>

\* The server sends the response: the body of a file response is read from the handle
\* send_file opened, and the client may go away or the sending may fail meanwhile
Transfer(r, outcome) ==
    /\ req[r].pc = "transfer"
    /\ IF req[r].body = "file" THEN outcome \in {"delivered", "disconnect", "error"}
                               ELSE outcome = "sent"
    /\ req' = [req EXCEPT ![r] = [@ EXCEPT !.pc = "done", !.transfer = outcome]]
    /\ UNCHANGED <<files, uids, harness>>

Serve(r) ==
    \/ \E route \in {"download", "videoinfo"}, u \in UrlArgs, f \in FmtArgs :
           Request(r, route, u, f)
    \/ ViValidate(r)
    \/ \E raises \in BOOLEAN, raw \in SmallRawLists : ViFetch(r, raises, raw)
    \/ DlValidate(r)
    \/ \E ffmpeg \in BOOLEAN : DlProbe(r, ffmpeg)
    \/ \E u \in UidPool : DlAllocate(r, u)
    \/ \E written \in SUBSET Exts, raises \in BOOLEAN, reported \in Exts, title \in Titles :
           DlExtract(r, written, raises, reported, title)
    \/ DlResolve(r)
    \/ \E raises \in BOOLEAN : DlSendFile(r, raises)
    \/ \E fails \in BOOLEAN : AfterRequest(r, fails)
    \/ \E outcome \in {"sent", "delivered", "disconnect", "error"} : Transfer(r, outcome)

\* one request at a time
Next == Serve(1)

Spec == Init /\ [][Next]_vars

\* download jobs and metadata requests served concurrently, their steps interleaved
ConcExts == {"webm", "mp4"}

Job(r) ==
    \/ Request(r, "download", GoodUrl, NoArg)
    \/ \E u \in {GoodUrl, BadUrl} : Request(r, "videoinfo", u, NoArg)
    \/ ViValidate(r)
    \/ \E raises \in BOOLEAN : ViFetch(r, raises, <<>>)
    \/ DlValidate(r)
    \/ DlProbe(r, TRUE)
    \/ \E u \in UidPool : DlAllocate(r, u)
    \/ \E written \in SUBSET ConcExts, raises \in BOOLEAN :
           DlExtract(r, written, raises, IF raises THEN "" ELSE "webm", NoArg)
    \/ DlResolve(r)
    \/ DlSendFile(r, FALSE)
    \/ \E fails \in BOOLEAN : AfterRequest(r, fails)
    \/ Transfer(r, "delivered") \/ Transfer(r, "sent")

NextConc == \E r \in Reqs : Job(r)

SpecConc == Init /\ [][NextConc]_vars

\* the validator on its own
NextUrl == Validate

InitUrl ==
    /\ req = [r \in Reqs |-> IdleReq]
    /\ files = {}
    /\ uids = {}
    /\ CandidateUrl
    /\ rawFormats = <<>>
    /\ formats = NoFormats

SpecUrl == InitUrl /\ [][NextUrl]_vars

\* the format list on its own
NextFmt == Describe

InitFmt ==
    /\ req = [r \in Reqs |-> IdleReq]
    /\ files = {}
    /\ uids = {}
    /\ cand = BlankCandidate
    /\ verdict = Unset
    /\ EngineFormats

SpecFmt == InitFmt /\ [][NextFmt]_vars

----------------------------------------------------------------------------
(* Properties *)

Finished(r) == req[r].pc = "done"
Validated(r) == req[r].pc \notin {"idle", "validate", "vi_validate"}

\* C1: once a download request whose engine was invoked has finished, the folder holds
\* no file whose name starts with the job's identifier, whatever the outcome was.
C1_NoArtifactOutlivesResponse ==
    \A r \in Reqs :
        (Finished(r) /\ req[r].engineMode = "download") => FilesOf(req[r].uid) = {}

\* C2: after the response of a successful download (200, attachment) has completed,
\* the folder holds no file of the job, in the direct and in the fallback case.
C2_SuccessLeavesNoFile ==
    \A r \in Reqs :
        (Finished(r) /\ req[r].status = 200 /\ req[r].body = "file")
            => FilesOf(req[r].uid) = {}

\* C3: a job that got as far as the extraction has run remove_file by the time it ends,
\* on every path: extraction failed, artifact missing, stream error, delivered.
C3_CleanupOnEveryPath ==
    \A r \in Reqs :
        (Finished(r) /\ req[r].engineMode = "download") => req[r].removeRan

\* C4: when the engine returned and neither the reported path nor its .mp4 sibling
\* exists, the answer is 500 "File not found after download" and no file of the job
\* is left in the folder.
C4_ArtifactMissing ==
    \A r \in Reqs :
        (/\ Finished(r)
         /\ req[r].final_path # NoPath
         /\ ~req[r].removeRan
         /\ ~Exists(req[r].final_path)
         /\ ~Exists(<<req[r].uid, "mp4">>))
            => /\ req[r].status = 500
               /\ req[r].error = E_NotFound
               /\ FilesOf(req[r].uid) = {}

\* C5: when check_ffmpeg fails for a download request with a valid URL, the answer is
\* 500 with the install-ffmpeg message, no identifier is generated, the engine is not
\* invoked and no file is created.
C5_MissingFfmpeg ==
    \A r \in Reqs :
        req[r].ffmpeg = "missing"
            => /\ is_valid_youtube_url(req[r].url)
               /\ req[r].status = 500
               /\ req[r].error = E_Ffmpeg
               /\ req[r].uid = NoUid
               /\ uids = {}
               /\ req[r].engineCalls = 0
               /\ files = {}

C5_Witness ==
    \E r \in Reqs : Finished(r) /\ req[r].route = "download" /\ req[r].ffmpeg = "missing"

\* C6 as stated: a request whose URL fails is_valid_youtube_url is answered
\* 400 "Invalid YouTube URL", and the engine is not called.
C6_AsStated ==
    \A r \in Reqs :
        (Finished(r) /\ ~is_valid_youtube_url(req[r].url))
            => /\ req[r].status = 400
               /\ req[r].error = E_Invalid
               /\ req[r].engineCalls = 0

\* C6: on both routes, a request whose trimmed URL fails is_valid_youtube_url never has
\* the engine called and is answered 400: "No URL provided" when the trimmed URL is
\* empty, "Invalid YouTube URL" otherwise.
C6_ValidatorBeforeEngine ==
    \A r \in Reqs :
        (Validated(r) /\ ~is_valid_youtube_url(req[r].url))
            => /\ req[r].status = 400
               /\ req[r].error = (IF req[r].url = <<>> THEN E_NoUrl ELSE E_Invalid)
               /\ req[r].engineCalls = 0

C6_Witness ==
    \E r \in Reqs : /\ Finished(r)
                    /\ req[r].route = "download"
                    /\ req[r].url = BadUrl
                    /\ req[r].error = E_Invalid

\* C7: in a successful download, remove_file removes the file only after the file has
\* been transferred to the caller.
C7_RemoveAfterTransfer ==
    \A r \in Reqs :
        (req[r].removeRan /\ ~req[r].cleanupError /\ req[r].body = "file")
            => req[r].transfer # "none"

\* what C8 calls a URL of a recognized shape
Recognized(c) ==
    /\ ~c.blank
    /\ c.host \in {"youtube", "youtu", "youtube-nocookie"}
    /\ c.shape \in {"watch", "embed", "short", "shorts"}
    /\ c.tokLen = TokenLen
    /\ c.tokKind = "plain"

\* C8: is_valid_youtube_url is true iff the URL is one of the four path shapes on a
\* video host followed by a token of exactly 11 characters; the empty string, a 10- and
\* a 12-character token and another host are rejected.
C8_ValidatorIff ==
    verdict.done => (verdict.value <=> Recognized(cand))

\* C9: every descriptor video_info returns has exactly one of progressive, video_only,
\* audio_only, and an ext among mp4, webm, m4a, mp3, opus.
C9_ExactlyOneClass ==
    formats.done =>
        \A i \in DOMAIN formats.value :
            LET f == formats.value[i]
            IN  /\ Cardinality({k \in {"p", "v", "a"} :
                                  \/ k = "p" /\ f.progressive
                                  \/ k = "v" /\ f.video_only
                                  \/ k = "a" /\ f.audio_only}) = 1
                /\ f.ext \in AllowedExts

\* the characters of a query argument, "" when it is missing
ArgText(arg) == IF arg = NoArg THEN <<>> ELSE arg

\* the positions of a text that hold something else than white space
Inked(a) == { i \in 1..Len(a) : a[i] \notin Whitespace }

\* C10: the format the engine is given is the format_id argument without its
\* surrounding white space when that is not empty, and "bestvideo+bestaudio/best"
\* otherwise.
C10_FormatSpec ==
    \A r \in Reqs :
        req[r].engineMode = "download" =>
            LET a == ArgText(req[r].fmtArg)
            IN  IF Inked(a) = {}
                THEN req[r].engineFormat = DefaultSpec
                ELSE \E i, j \in Inked(a) :
                        /\ \A k \in Inked(a) : i <= k /\ k <= j
                        /\ req[r].engineFormat = SubSeq(a, i, j)

C10_Witness ==
    \E r \in Reqs : /\ Finished(r)
                    /\ req[r].engineMode = "download"
                    /\ req[r].fmtArg = <<" ">>
                    /\ req[r].engineFormat = DefaultSpec

\* a text without its surrounding white space
Trimmed(a) ==
    IF Inked(a) = {} THEN <<>>
    ELSE SubSeq(a, CHOOSE i \in Inked(a) : \A k \in Inked(a) : i <= k,
                   CHOOSE j \in Inked(a) : \A k \in Inked(a) : k <= j)

\* n is t with its hostile characters replaced by underscores, a dot, and the extension
\* of the path, mp4 when the path has none
NameIs(n, t, path) ==
    LET e == IF path[2] = "" THEN L_mp4 ELSE ExtText(path[2])
    IN  /\ Len(n) = Len(t) + 1 + Len(e)
        /\ \A i \in 1..Len(t) : n[i] = (IF t[i] \in Hostile THEN "_" ELSE t[i])
        /\ n[Len(t) + 1] = "."
        /\ SubSeq(n, Len(t) + 2, Len(n)) = e

Sent(r) == req[r].status = 200 /\ req[r].body = "file"

\* C11 as stated: the download name is the title with the hostile characters replaced
\* and every other character unchanged, a dot, and the extension of the resolved file
\* or mp4.
C11_AsStated ==
    \A r \in Reqs :
        Sent(r) => NameIs(req[r].download_name, ArgText(req[r].title), req[r].final_path)

\* C11: the download name is the title, or "video" when the title is missing or empty,
\* without its surrounding white space, with the hostile characters replaced and every
\* other character unchanged, a dot, and the extension of the resolved file or mp4.
C11_DownloadName ==
    \A r \in Reqs :
        Sent(r) =>
            NameIs(req[r].download_name,
                   Trimmed(IF ArgText(req[r].title) = <<>> THEN L_video
                           ELSE req[r].title),
                   req[r].final_path)

C11_Witness ==
    \E r \in Reqs : /\ Finished(r) /\ Sent(r)
                    /\ req[r].title = <<"M","y",":","V","/","C","?">>
                    /\ req[r].final_path[2] = ""
                    /\ req[r].download_name = <<"M","y","_","V","_","C","_",".","m","p","4">>

\* the one fallback of a job: the reported path with its extension replaced by .mp4
Sibling(r) == <<req[r].uid, "mp4">>

\* C12: the resolved path is the reported path if it exists, else its .mp4 sibling if
\* that exists, else the job fails with "File not found after download"; no other path
\* is probed, and the file sent on success is one of the two.
C12_OneFallback ==
    \A r \in Reqs :
        LET q == req[r]
        IN  /\ q.probed \subseteq {q.reported, Sibling(r)}
            /\ q.pc = "send" =>
                   IF Exists(q.reported) THEN q.final_path = q.reported
                   ELSE q.final_path = Sibling(r) /\ Exists(Sibling(r))
            /\ (q.pc = "after" /\ q.reported # NoPath /\ ~q.registered) =>
                   /\ ~Exists(q.reported)
                   /\ ~Exists(Sibling(r))
                   /\ q.status = 500
                   /\ q.error = E_NotFound
            /\ Sent(r) => q.final_path \in {q.reported, Sibling(r)}

C12_Witness ==
    \E r \in Reqs : /\ Finished(r) /\ Sent(r)
                    /\ req[r].reported = <<req[r].uid, "webm">>
                    /\ req[r].final_path = Sibling(r)
                    /\ req[r].probed = {req[r].reported, Sibling(r)}

\* the three kinds of descriptor C13 orders; 3 for a descriptor of no kind
Kind(f) == IF f.progressive THEN 0 ELSE IF f.video_only THEN 1 ELSE IF f.audio_only THEN 2 ELSE 3

\* a number, 0 when it is missing
Or0(x) == IF x = NoNumber THEN 0 ELSE x

\* C13: in the list video_info returns, progressive descriptors precede video-only ones,
\* which precede audio-only ones; within a kind heights descend, a missing height
\* counting as 0; equal heights are in descending audio bitrate, a missing one counting
\* as 0.
C13_Ordered ==
    formats.done =>
        \A i, j \in DOMAIN formats.value :
            LET f == formats.value[i]
                g == formats.value[j]
            IN  (i < j /\ Kind(f) < 3 /\ Kind(g) < 3) =>
                    /\ Kind(f) <= Kind(g)
                    /\ Kind(f) = Kind(g) => Or0(f.height) >= Or0(g.height)
                    /\ (Kind(f) = Kind(g) /\ Or0(f.height) = Or0(g.height))
                           => Or0(f.abr) >= Or0(g.abr)

C13_Witness ==
    /\ formats.done
    /\ Len(formats.value) = 2
    /\ Len(rawFormats) = 2
    /\ rawFormats[1].height = NoNumber /\ rawFormats[1].vcodec = "codec"
    /\ rawFormats[1].acodec = "codec"
    /\ formats.value[1].progressive /\ formats.value[1].height = 720
    /\ formats.value[2].progressive /\ formats.value[2].height = NoNumber

\* the job has resolved a file that exists, and the handler has returned
Resolved(r) ==
    /\ req[r].pc \in {"after", "transfer", "done"}
    /\ req[r].reported # NoPath
    /\ req[r].error # E_NotFound

Response(q) == <<q.status, q.body, q.error, q.download_name>>

\* C15: when remove_file has run, the request goes on to the transfer with the response
\* the handler returned, whether os.remove raised or not: no exception leaves
\* remove_file.
C15_Swallowed ==
    [][\A r \in Reqs :
          (req[r].pc = "after" /\ req'[r].pc # "after")
              => /\ req'[r].pc = "transfer"
                 /\ Response(req'[r]) = Response(req[r])]_vars

C15_Witness ==
    \E r \in Reqs : /\ Finished(r) /\ Sent(r)
                    /\ req[r].cleanupError
                    /\ Exists(req[r].final_path)
                    /\ req[r].transfer = "delivered"

\* C16: under any interleaving of download jobs, no two jobs have the same identifier
\* (hence the same output path), the path a job resolves, sends and deletes carries its
\* own identifier, and a step that creates or removes a file is a step of the job whose
\* identifier the file carries.
C16_Namespaced ==
    [][/\ \A r1, r2 \in Reqs :
             (r1 # r2 /\ req'[r1].uid # NoUid) => req'[r1].uid # req'[r2].uid
       /\ \A r \in Reqs :
             req'[r].final_path # NoPath => req'[r].final_path[1] = req'[r].uid
       /\ \A f \in (files \ files') \cup (files' \ files) :
             \E r \in Reqs : req'[r] # req[r] /\ f[1] = req[r].uid]_vars

C16_Witness ==
    \E r1, r2 \in Reqs :
        /\ r1 # r2
        /\ req[r1].pc = "transfer" /\ req[r1].removeRan /\ FilesOf(req[r1].uid) = {}
        /\ req[r2].pc = "send" /\ Exists(req[r2].final_path)

\* C17: when the engine raises during a download the request is answered 500
\* "Download failed: ...", and the handler invokes the engine at most once per request.
C17_NoRetry ==
    \A r \in Reqs :
        /\ req[r].engineCalls <= 1
        /\ (req[r].route = "download" /\ req[r].engineRaised)
               => /\ req[r].pc \in {"after", "transfer", "done"}
                  /\ req[r].status = 500
                  /\ req[r].body = "json"
                  /\ req[r].error = E_Download

C17_Witness ==
    \E r \in Reqs : /\ Finished(r)
                    /\ req[r].route = "download"
                    /\ req[r].engineRaised
                    /\ req[r].engineCalls = 1
                    /\ req[r].transfer = "sent"

\* C18: download tests for a missing URL, then validates it, then probes ffmpeg: a
\* request with a missing or invalid URL is answered 400 and ffmpeg is not probed.
C18_UrlBeforeProbe ==
    \A r \in Reqs :
        (req[r].route = "download" /\ Validated(r) /\ ~is_valid_youtube_url(req[r].url))
            => /\ req[r].status = 400
               /\ req[r].error = (IF req[r].url = <<>> THEN E_NoUrl ELSE E_Invalid)
               /\ req[r].probes = 0
               /\ req[r].ffmpeg = "unprobed"

C18_Witness ==
    \E r \in Reqs : /\ Finished(r)
                    /\ req[r].route = "download"
                    /\ req[r].urlArg = BadUrl
                    /\ req[r].status = 400
                    /\ req[r].probes = 0

\* C19: a step of a videoinfo request creates no file, deletes no file and generates no
\* identifier; such a request never probes ffmpeg, and invokes the engine in no-download
\* mode only.
C19_MetadataFrame ==
    [][\A r \in Reqs :
          (req'[r] # req[r] /\ req'[r].route = "videoinfo")
              => /\ files' = files
                 /\ uids' = uids
                 /\ req'[r].uid = NoUid
                 /\ req'[r].probes = 0
                 /\ req'[r].engineMode \in {"none", "no_download"}
                 /\ ~req'[r].removeRan]_vars

C19_Witness ==
    \E r1, r2 \in Reqs :
        /\ Finished(r1) /\ req[r1].route = "videoinfo" /\ req[r1].status = 200
        /\ req[r1].engineMode = "no_download"
        /\ req[r2].pc = "send" /\ Exists(req[r2].final_path)

====
